---------------------------- MODULE Spec2Model ----------------------------
(***************************************************************************)
(* A model of the copy-detection repository:                               *)
(*   - the Backbone enumeration, Backbone.build and Model.__init__ /       *)
(*     Model.add_arguments of src/model.py ("root") and of                 *)
(*     src/sscd/models/model.py ("sscd");                                  *)
(*   - DISCTrainDataset and DISCEvalDataset of src/sscd/datasets/disc.py.  *)
(* Python strings whose characters the code inspects are sequences of      *)
(* one-character strings.                                                  *)
(***************************************************************************)
EXTENDS Integers, Sequences, FiniteSets, TLC

VARIABLES
    mfile,      \* which model file is loaded: "root" or "sscd"
    mpc,        \* position of the model program
    margv,      \* the command line given to the parser
    margs,      \* the parsed argument namespace (backbone, dims, pool_param)
    mres,       \* the outcome of the last build / Model construction
    tgt,        \* final_ground_truth.csv: the (query_id, reference_id) rows
    tdisk,      \* the image paths found under train_dataset_path
    tds,        \* the DISCTrainDataset object
    tcalls,     \* the __getitem__ calls made on it, with their outcomes
    ddisk,      \* the image numbers of the files in each dataset directory
    dpc,        \* position of the evaluation-dataset program
    dargs,      \* the arguments DISCEvalDataset was constructed with
    dds,        \* the DISCEvalDataset object
    dreads,     \* the paths read while constructing it, in order
    dcall,      \* the last __getitem__ call made on it, with its outcome
    rpc,        \* position of the retrieval-evaluation program
    rin,        \* the arguments retrieval_eval was called with
    rsplits,    \* the arguments it passed on to retrieval_eval_splits
    rcalls,     \* the calls made to the matchers and to evaluate, in order
    rout        \* the dictionary retrieval_eval returned

mvars == <<mfile, mpc, margv, margs, mres>>

tvars == <<tgt, tdisk, tds, tcalls>>

dvars == <<ddisk, dpc, dargs, dds, dreads, dcall>>

vars == <<mfile, mpc, margv, margs, mres, tgt, tdisk, tds, tcalls,
          ddisk, dpc, dargs, dds, dreads, dcall,
          rpc, rin, rsplits, rcalls, rout>>

rvars == <<rpc, rin, rsplits, rcalls, rout>>

-----------------------------------------------------------------------------
(* Strings as character sequences *)

\* s[0:len(p)] == p
StartsWith(s, p) ==
    /\ Len(s) >= Len(p)
    /\ \A i \in 1..Len(p) : s[i] = p[i]

\* Python's `sub in s` on strings
Contains(s, sub) ==
    \E k \in 0..(Len(s) - Len(sub)) :
        \A i \in 1..Len(sub) : s[k + i] = sub[i]

\* The characters of the names the model programs handle.
Spell(s) ==
    IF s = "CV_RESNET18" THEN <<"C","V","_","R","E","S","N","E","T","1","8">> ELSE
    IF s = "CV_RESNET50" THEN <<"C","V","_","R","E","S","N","E","T","5","0">> ELSE
    IF s = "CV_RESNEXT101" THEN <<"C","V","_","R","E","S","N","E","X","T","1","0","1">> ELSE
    IF s = "TV_EFFICIENTNET_B0" THEN <<"T","V","_","E","F","F","I","C","I","E","N","T","N","E","T","_","B","0">> ELSE
    IF s = "TV_MOBILENETV3" THEN <<"T","V","_","M","O","B","I","L","E","N","E","T","V","3">> ELSE
    IF s = "TV_REGNET_X_800MF" THEN <<"T","V","_","R","E","G","N","E","T","_","X","_","8","0","0","M","F">> ELSE
    IF s = "TV_REGNET_Y_800MF" THEN <<"T","V","_","R","E","G","N","E","T","_","Y","_","8","0","0","M","F">> ELSE
    IF s = "TV_RESNET18" THEN <<"T","V","_","R","E","S","N","E","T","1","8">> ELSE
    IF s = "TV_RESNET50" THEN <<"T","V","_","R","E","S","N","E","T","5","0">> ELSE
    IF s = "TV_RESNEXT101" THEN <<"T","V","_","R","E","S","N","E","X","T","1","0","1">> ELSE
    IF s = "TIMM_RESNET18" THEN <<"T","I","M","M","_","R","E","S","N","E","T","1","8">> ELSE
    IF s = "TIMM_EFFICIENTNET" THEN <<"T","I","M","M","_","E","F","F","I","C","I","E","N","T","N","E","T">> ELSE
    IF s = "TIMM_MOBILENETV3" THEN <<"T","I","M","M","_","M","O","B","I","L","E","N","E","T","V","3">> ELSE
    IF s = "resnet18" THEN <<"r","e","s","n","e","t","1","8">> ELSE
    <<"B","O","G","U","S">>

-----------------------------------------------------------------------------
(* Implementation and Backbone enumerations *)

\* A tuple's first element: a Python str or a constructor function.
Str(id) == [kind |-> "str", id |-> id]
Fn(id) == [kind |-> "callable", id |-> id]

Member(name, v0, v1, v2) == [name |-> name, v0 |-> v0, v1 |-> v1, v2 |-> v2]

ImplementationRoot == {"CLASSY_VISION", "TORCHVISION", "TIMM"}

ImplementationSscd == {"CLASSY_VISION", "TORCHVISION"}

\* class Backbone of src/model.py, in definition order
BackboneRoot == <<
    Member("CV_RESNET18", Str("resnet18"), 512, "CLASSY_VISION"),
    Member("CV_RESNET50", Str("resnet50"), 2048, "CLASSY_VISION"),
    Member("CV_RESNEXT101", Str("resnext101_32x4d"), 2048, "CLASSY_VISION"),
    Member("TV_EFFICIENTNET_B0", Fn("efficientnet_b0"), 1280, "TORCHVISION"),
    Member("TV_MOBILENETV3", Fn("mobilenet_v3_large"), 1280, "TORCHVISION"),
    Member("TV_REGNET_X_800MF", Fn("regnet_x_800mf"), 672, "TORCHVISION"),
    Member("TV_REGNET_Y_800MF", Fn("regnet_y_800mf"), 784, "TORCHVISION"),
    Member("TV_RESNET18", Fn("resnet18"), 512, "TORCHVISION"),
    Member("TV_RESNET50", Fn("resnet50"), 2048, "TORCHVISION"),
    Member("TV_RESNEXT101", Fn("resnext101_32x8d"), 2048, "TORCHVISION"),
    Member("TIMM_RESNET18", Str("resnet18"), 512, "TIMM"),
    Member("TIMM_EFFICIENTNET", Str("efficientbet_b0"), 1280, "TORCHVISION"),
    Member("TIMM_MOBILENETV3", Str("mobilenetv3_large_100"), 1280, "TORCHVISION") >>

\* class Backbone of src/sscd/models/model.py, in definition order
BackboneSscd == <<
    Member("CV_RESNET18", Str("resnet18"), 512, "CLASSY_VISION"),
    Member("CV_RESNET50", Str("resnet50"), 2048, "CLASSY_VISION"),
    Member("CV_RESNEXT101", Str("resnext101_32x4d"), 2048, "CLASSY_VISION"),
    Member("TV_EFFICIENTNET_B0", Fn("efficientnet_b0"), 1280, "TORCHVISION"),
    Member("TV_MOBILENETV3", Fn("mobilenet_v3_large"), 1280, "TORCHVISION"),
    Member("TV_REGNET_X_800MF", Fn("regnet_x_800mf"), 672, "TORCHVISION"),
    Member("TV_REGNET_Y_800MF", Fn("regnet_y_800mf"), 784, "TORCHVISION"),
    Member("TV_RESNET18", Fn("resnet18"), 512, "TORCHVISION"),
    Member("TV_RESNET50", Fn("resnet50"), 2048, "TORCHVISION"),
    Member("TV_RESNEXT101", Fn("resnext101_32x8d"), 2048, "TORCHVISION") >>

Backbone(file) == IF file = "root" THEN BackboneRoot ELSE BackboneSscd

SameValue(a, b) == a.v0 = b.v0 /\ a.v1 = b.v1 /\ a.v2 = b.v2

\* enum.Enum: a definition whose value equals an earlier one's is an alias of
\* it; the canonical member of definition i is the first with its value.
Canonical(defs, i) ==
    defs[CHOOSE j \in 1..i :
            /\ SameValue(defs[j], defs[i])
            /\ \A h \in 1..(j - 1) : ~SameValue(defs[h], defs[i])]

\* Iterating the enumeration yields the canonical members, in definition order.
RECURSIVE IterFrom(_, _)
IterFrom(defs, i) ==
    IF i > Len(defs) THEN <<>>
    ELSE (IF Canonical(defs, i) = defs[i] THEN <<defs[i]>> ELSE <<>>)
         \o IterFrom(defs, i + 1)

Iter(defs) == IterFrom(defs, 1)

\* Backbone[name]: every defined name, aliases included, resolves; any other
\* raises KeyError.
Lookup(defs, name) ==
    IF \E i \in 1..Len(defs) : defs[i].name = name
    THEN [found |-> TRUE,
          member |-> Canonical(defs, CHOOSE i \in 1..Len(defs) : defs[i].name = name)]
    ELSE [found |-> FALSE, member |-> Member("", Str(""), 0, "")]


-----------------------------------------------------------------------------
(* Layers and backbone networks *)

Layer(op, a, b) == [op |-> op, a |-> a, b |-> b]

Builtin == Layer("builtin", 0, 0)

GlobalGeMPool2d(p) == Layer("GlobalGeMPool2d", p, 0)

Linear(in, out) == Layer("Linear", in, out)

Identity == Layer("Identity", 0, 0)

L2Norm == Layer("L2Norm", 0, 0)

\* What a model-zoo constructor returns: a network whose pooling and
\* classifier layers are the library's own until the caller replaces them.
Net(lib, arch, num_classes) ==
    [lib |-> lib, arch |-> arch, num_classes |-> num_classes,
     avgpool |-> Builtin, global_pool |-> Builtin, fc |-> Builtin,
     fc_init |-> "none"]

NoNet == Net("none", "none", 0)

BuildResult(exc, branches, net) ==
    [exc |-> exc, branches |-> branches, backbone |-> net]

\* self.value[0](num_classes=dims, zero_init_residual=True): calling a str
\* raises TypeError.
CallValue0(v0, dims) ==
    IF v0.kind = "callable"
    THEN BuildResult("none", <<"TORCHVISION">>, Net("torchvision", v0.id, dims))
    ELSE BuildResult("TypeError", <<"TORCHVISION">>, NoNet)

\* Backbone.build of src/model.py with the TIMM branch missing.
BuildRootNoTimm(member, dims) ==
    LET impl == member.v2 IN
    IF impl = "CLASSY_VISION"
    THEN BuildResult("none", <<"CLASSY_VISION">>, Net("classy_vision", member.v0.id, 0))
    ELSE IF impl = "TORCHVISION"
    THEN CallValue0(member.v0, dims)
    ELSE BuildResult("AssertionError", <<>>, NoNet)

\* Backbone.build of src/model.py
BuildRoot(member, dims) ==
    LET impl == member.v2 IN
    IF impl = "CLASSY_VISION"
    THEN BuildResult("none", <<"CLASSY_VISION">>, Net("classy_vision", member.v0.id, 0))
    ELSE IF impl = "TORCHVISION"
    THEN CallValue0(member.v0, dims)
    ELSE IF impl = "TIMM"
    THEN BuildResult("none", <<"TIMM">>, Net("timm", member.v0.id, 0))
    ELSE BuildResult("AssertionError", <<>>, NoNet)

\* Backbone.build of src/sscd/models/model.py
BuildSscd(member, dims) ==
    LET impl == member.v2 IN
    IF impl = "CLASSY_VISION"
    THEN BuildResult("none", <<"CLASSY_VISION">>, Net("classy_vision", member.v0.id, 0))
    ELSE IF impl = "TORCHVISION"
    THEN CallValue0(member.v0, dims)
    ELSE BuildResult("AssertionError", <<>>, NoNet)

Build(file, member, dims) ==
    IF file = "root" THEN BuildRoot(member, dims) ELSE BuildSscd(member, dims)

-----------------------------------------------------------------------------
(* Model.__init__ *)

\* The outcome of a build or of a Model construction.
Outcome(op, exc, branches, backbone_type, net, embeddings) ==
    [op |-> op, exc |-> exc, branches |-> branches,
     backbone_type |-> backbone_type, backbone |-> net,
     embeddings |-> embeddings]

NoOutcome == Outcome("none", "none", <<>>, "", NoNet, <<>>)

\* Model.__init__ of src/model.py
ModelInitRoot(backbone, dims, pool_param) ==
    LET lk == Lookup(BackboneRoot, backbone) IN
    IF ~lk.found THEN Outcome("Model", "KeyError", <<>>, "", NoNet, <<>>)
    ELSE
    LET bt == lk.member
        b == BuildRoot(bt, dims)
        impl == bt.v2
        net == b.backbone
    IN
    IF b.exc # "none"
    THEN Outcome("Model", b.exc, b.branches, bt.name, NoNet, <<>>)
    ELSE IF impl = "CLASSY_VISION"
    THEN Outcome("Model", "none", b.branches, bt.name, net,
                 <<GlobalGeMPool2d(pool_param), Linear(bt.v1, dims), L2Norm>>)
    ELSE IF impl = "TORCHVISION"
    THEN Outcome("Model", "none", b.branches, bt.name,
                 [net EXCEPT !.avgpool = GlobalGeMPool2d(pool_param),
                             !.fc = Identity],
                 <<Linear(bt.v1, dims), L2Norm>>)
    ELSE IF impl = "TIMM"
    THEN (IF bt.v1 # dims
          THEN Outcome("Model", "none", b.branches, bt.name,
                       [net EXCEPT !.global_pool = GlobalGeMPool2d(pool_param),
                                   !.fc = Identity],
                       <<Linear(bt.v1, dims), L2Norm>>)
          ELSE Outcome("Model", "none", b.branches, bt.name,
                       [net EXCEPT !.global_pool = GlobalGeMPool2d(pool_param),
                                   !.fc = Identity],
                       <<L2Norm>>))
    ELSE Outcome("Model", "none", b.branches, bt.name, net, <<>>)

\* The pooling test with the boundary included.
SwapsPoolingFromOne(pool_param) == pool_param >= 1

\* `if pool_param > 1:` of the TORCHVISION branch
SwapsPooling(pool_param) == pool_param > 1

\* Model.__init__ of src/sscd/models/model.py
ModelInitSscd(backbone, dims, pool_param) ==
    LET lk == Lookup(BackboneSscd, backbone) IN
    IF ~lk.found THEN Outcome("Model", "KeyError", <<>>, "", NoNet, <<>>)
    ELSE
    LET bt == lk.member
        b == BuildSscd(bt, dims)
        impl == bt.v2
        net == b.backbone
        name == Spell(backbone)
    IN
    IF b.exc # "none"
    THEN Outcome("Model", b.exc, b.branches, bt.name, NoNet, <<>>)
    ELSE IF impl = "CLASSY_VISION"
    THEN Outcome("Model", "none", b.branches, bt.name, net,
                 <<GlobalGeMPool2d(pool_param), Linear(bt.v1, dims), L2Norm>>)
    ELSE IF impl = "TORCHVISION"
    THEN (IF SwapsPooling(pool_param)
          THEN Outcome("Model", "none", b.branches, bt.name,
                       [net EXCEPT !.avgpool = GlobalGeMPool2d(pool_param),
                                   !.fc_init =
                                       IF Contains(name, <<"R","E","S","N","E","T">>)
                                       THEN "fc"
                                       ELSE IF Contains(name, <<"E","F","F","I","C","I","E","N","T">>)
                                       THEN "classifier[1]"
                                       ELSE "none"],
                       <<L2Norm>>)
          ELSE Outcome("Model", "none", b.branches, bt.name, net, <<L2Norm>>))
    ELSE Outcome("Model", "none", b.branches, bt.name, net, <<>>)

ModelInit(file, backbone, dims, pool_param) ==
    IF file = "root" THEN ModelInitRoot(backbone, dims, pool_param)
    ELSE ModelInitSscd(backbone, dims, pool_param)

-----------------------------------------------------------------------------
(* Model.add_arguments and the argument parser *)

RECURSIVE NamesOf(_)
NamesOf(members) ==
    IF members = <<>> THEN <<>>
    ELSE <<Head(members).name>> \o NamesOf(Tail(members))

ArgumentGroup(choices, backbone, dims, pool_param) ==
    [choices |-> choices, backbone |-> backbone, dims |-> dims,
     pool_param |-> pool_param]

\* add_arguments with a default that names the architecture, not the member.
AddArgumentsRootArchDefault ==
    ArgumentGroup(NamesOf(Iter(BackboneRoot)), "resnet18", 512, 3)

\* Model.add_arguments of src/model.py: the choices and the defaults
AddArgumentsRoot ==
    ArgumentGroup(NamesOf(Iter(BackboneRoot)), "TV_RESNET18", 512, 3)

\* Model.add_arguments of src/sscd/models/model.py
AddArgumentsSscd ==
    ArgumentGroup(NamesOf(Iter(BackboneSscd)), "TV_RESNET18", 512, 3)

AddArguments(file) == IF file = "root" THEN AddArgumentsRoot ELSE AddArgumentsSscd

Range(seq) == {seq[i] : i \in 1..Len(seq)}

-----------------------------------------------------------------------------
(* The model programs: parse the command line, construct a Model, or call  *)
(* Backbone.build on a member.                                             *)

MaxPoolParam == 3

\* pool_param is a float; the integer-valued ones around the code's
\* threshold (pool_param > 1) are enumerated.
PoolParams == 0..MaxPoolParam

DimsChoices == {256, 512, 1280}

\* Strings a caller may pass as a backbone name.
BackboneStrings == Range(NamesOf(BackboneRoot)) \cup {"resnet18", "BOGUS"}

Namespace(backbone, dims, pool_param) ==
    [backbone |-> backbone, dims |-> dims, pool_param |-> pool_param]

NoArgs == Namespace("", 0, 0)

\* A command line: which of the three options are given, and their values.
Argv(gb, b, gd, d, gp, p) ==
    [parsed |-> TRUE,
     has_backbone |-> gb, backbone |-> IF gb THEN b ELSE "",
     has_dims |-> gd, dims |-> IF gd THEN d ELSE 0,
     has_pool_param |-> gp, pool_param |-> IF gp THEN p ELSE 0]

NoArgv == [Argv(FALSE, "", FALSE, 0, FALSE, 0) EXCEPT !.parsed = FALSE]

ModelInitState ==
    /\ mfile \in {"root", "sscd"}
    /\ mpc = "start"
    /\ margv = NoArgv
    /\ margs = NoArgs
    /\ mres = NoOutcome
    /\ tgt = <<>> /\ tdisk = <<>> /\ tds = <<>> /\ tcalls = <<>>
    /\ ddisk = <<>> /\ dpc = "" /\ dargs = <<>> /\ dds = <<>>
    /\ dreads = <<>> /\ dcall = <<>>
    /\ rpc = "" /\ rin = <<>> /\ rsplits = <<>> /\ rcalls = <<>> /\ rout = <<>>

\* parser.parse_args(): a given --backbone outside the choices is a usage
\* error; an option that is not given takes its default, unchecked.
ParseArgs ==
    /\ mpc = "start"
    /\ \E gb \in BOOLEAN, b \in BackboneStrings,
          gd \in BOOLEAN, d \in DimsChoices,
          gp \in BOOLEAN, p \in PoolParams :
        LET group == AddArguments(mfile) IN
        /\ margv' = Argv(gb, b, gd, d, gp, p)
        /\ IF gb /\ b \notin Range(group.choices)
           THEN /\ mpc' = "usage_error"
                /\ margs' = margs
           ELSE /\ mpc' = "parsed"
                /\ margs' = Namespace(IF gb THEN b ELSE group.backbone,
                                      IF gd THEN d ELSE group.dims,
                                      IF gp THEN p ELSE group.pool_param)
    /\ UNCHANGED <<mfile, mres, tvars, dvars, rvars>>

\* Model(args.backbone, args.dims, args.pool_param) on the parsed namespace
ConstructFromArgs ==
    /\ mpc = "parsed"
    /\ mres' = ModelInit(mfile, margs.backbone, margs.dims, margs.pool_param)
    /\ mpc' = "done"
    /\ UNCHANGED <<mfile, margv, margs, tvars, dvars, rvars>>

\* Model(backbone, dims, pool_param) called directly
ConstructDirect ==
    /\ mpc = "start"
    /\ \E b \in BackboneStrings, d \in DimsChoices, p \in PoolParams :
        /\ margs' = Namespace(b, d, p)
        /\ mres' = ModelInit(mfile, b, d, p)
    /\ mpc' = "done"
    /\ UNCHANGED <<mfile, margv, tvars, dvars, rvars>>

\* member.build(dims) for a member of the enumeration
BuildMember ==
    /\ mpc = "start"
    /\ \E i \in 1..Len(Iter(Backbone(mfile))), d \in DimsChoices :
        LET member == Iter(Backbone(mfile))[i]
            b == Build(mfile, member, d)
        IN
        /\ margs' = Namespace(member.name, d, 0)
        /\ mres' = Outcome("build", b.exc, b.branches, member.name, b.backbone, <<>>)
    /\ mpc' = "done"
    /\ UNCHANGED <<mfile, margv, tvars, dvars, rvars>>

ModelNext ==
    ParseArgs \/ ConstructFromArgs \/ ConstructDirect \/ BuildMember

-----------------------------------------------------------------------------
(* Paths *)

\* os.path.join(a, b)
Join(a, b) ==
    IF b # <<>> /\ Head(b) = "/" THEN b
    ELSE IF a = <<>> \/ a[Len(a)] = "/" THEN a \o b
    ELSE a \o <<"/">> \o b

\* Python list indexing: negative indices count from the end, anything
\* outside -len .. len-1 raises IndexError.
PyIndexable(list, i) == 0 - Len(list) <= i /\ i < Len(list)

PyGet(list, i) == IF i >= 0 THEN list[i + 1] ELSE list[Len(list) + i + 1]

-----------------------------------------------------------------------------
(* DISCTrainDataset *)

MaxPairs == 2

MaxFiles == 2

MaxCalls == 2

\* The rows a ground-truth file may hold, and the files a directory may hold.
GtRows == { <<<<"Q","1">>, <<"R","1">>>>, <<<<"Q","2">>, <<"R","2">>>> }

TrainFiles == << <<"t","/","T","1",".","j","p","g">>, <<"t","/","T","2",".","j","p","g">>,
                 <<"t","/","T","3",".","j","p","g">>, <<"t","/","T","4",".","j","p","g">> >>

SeqsUpTo(S, n) == UNION { [1..k -> S] : k \in 0..n }

RECURSIVE PathsOf(_, _, _)
\* [os.path.join(dir, i + '.jpg') for i in gt[column]]
PathsOf(dir, rows, column) ==
    IF rows = <<>> THEN <<>>
    ELSE <<Join(dir, Head(rows)[column] \o <<".","j","p","g">>)>>
         \o PathsOf(dir, Tail(rows), column)

\* DISCTrainDataset.__init__: the attributes __len__ and __getitem__ read.
\* query_paths and ref_paths exist only on a supervised dataset.
TrainDataset(supervised, gt, files) ==
    [supervised |-> supervised,
     files |-> files,
     query_paths |-> IF supervised THEN PathsOf(<<"q">>, gt, 1) ELSE <<>>,
     ref_paths |-> IF supervised THEN PathsOf(<<"r">>, gt, 2) ELSE <<>>]

\* DISCTrainDataset.__len__
TrainLen(ds) ==
    IF ds.supervised THEN Len(ds.query_paths) ELSE Len(ds.files)

\* The bounds test with the upper end included.
IndexInBoundsInclusive(ds, idx) == 0 <= idx /\ idx <= TrainLen(ds)

\* assert 0 <= idx < len(self)
IndexInBounds(ds, idx) == 0 <= idx /\ idx < TrainLen(ds)

\* self.loader(path) and self.img_transform(img)
Image(path, transformed) == [path |-> path, transformed |-> transformed]

NoImage == Image(<<>>, FALSE)

Record(input0, input1, instance_id) ==
    [input0 |-> input0, input1 |-> input1, instance_id |-> instance_id]

NoRecord == Record(NoImage, NoImage, 0)

\* RepeatedAugmentationTransform(transforms, copies=2) applied to a record:
\* "input" is replaced by two transformed copies, the other keys are kept.
RepeatedAugmentation(img, instance_id) ==
    Record(Image(img.path, TRUE), Image(img.path, TRUE), instance_id)

Call(idx, exc, loaded, record) ==
    [idx |-> idx, exc |-> exc, loaded |-> loaded, record |-> record]

\* DISCTrainDataset.__getitem__
TrainGetItem(ds, idx) ==
    IF ~IndexInBounds(ds, idx)
    THEN Call(idx, "AssertionError", <<>>, NoRecord)
    ELSE IF ds.supervised
    THEN (IF ~PyIndexable(ds.query_paths, idx)
          THEN Call(idx, "IndexError", <<>>, NoRecord)
          ELSE IF ~PyIndexable(ds.ref_paths, idx)
          THEN Call(idx, "IndexError", <<PyGet(ds.query_paths, idx)>>, NoRecord)
          ELSE Call(idx, "none",
                    <<PyGet(ds.query_paths, idx), PyGet(ds.ref_paths, idx)>>,
                    Record(Image(PyGet(ds.query_paths, idx), TRUE),
                           Image(PyGet(ds.ref_paths, idx), TRUE),
                           idx)))
    ELSE (IF ~PyIndexable(ds.files, idx)
          THEN Call(idx, "IndexError", <<>>, NoRecord)
          ELSE Call(idx, "none", <<PyGet(ds.files, idx)>>,
                    RepeatedAugmentation(Image(PyGet(ds.files, idx), FALSE), idx)))

TrainInitState ==
    /\ tgt \in SeqsUpTo(GtRows, MaxPairs)
    /\ tdisk \in {SubSeq(TrainFiles, 1, n) : n \in 0..MaxFiles}
    /\ \E supervised \in BOOLEAN :
           tds = TrainDataset(supervised, tgt, tdisk)
    /\ tcalls = <<>>
    /\ mfile = "" /\ mpc = "" /\ margv = <<>> /\ margs = <<>> /\ mres = <<>>
    /\ ddisk = <<>> /\ dpc = "" /\ dargs = <<>> /\ dds = <<>>
    /\ dreads = <<>> /\ dcall = <<>>
    /\ rpc = "" /\ rin = <<>> /\ rsplits = <<>> /\ rcalls = <<>> /\ rout = <<>>

\* dataset[idx], for an index inside or around the valid range
GetItem ==
    /\ Len(tcalls) < MaxCalls
    /\ \E idx \in (0 - 2)..(MaxPairs + MaxFiles) :
           tcalls' = Append(tcalls, TrainGetItem(tds, idx))
    /\ UNCHANGED <<tgt, tdisk, tds, mvars, dvars, rvars>>

TrainNext == GetItem

-----------------------------------------------------------------------------
(* Numbers and file names as text *)

DigitChars == <<"0", "1", "2", "3", "4", "5", "6", "7", "8", "9">>

IsDigit(c) == \E i \in 1..Len(DigitChars) : DigitChars[i] = c

DigitValue(c) == (CHOOSE i \in 1..Len(DigitChars) : DigitChars[i] = c) - 1

RECURSIVE Decimal(_)
\* str(n) for n >= 0
Decimal(n) ==
    IF n < Len(DigitChars) THEN <<DigitChars[n + 1]>>
    ELSE Decimal(n \div Len(DigitChars)) \o <<DigitChars[(n % Len(DigitChars)) + 1]>>

RECURSIVE ZeroPad(_, _)
ZeroPad(s, width) == IF Len(s) >= width THEN s ELSE ZeroPad(<<"0">> \o s, width)

\* "<letter>%0<width>d" % n, for n >= 0
Format(letter, width, n) == <<letter>> \o ZeroPad(Decimal(n), width)

RECURSIVE DigitsValue(_)
DigitsValue(s) ==
    IF s = <<>> THEN 0
    ELSE DigitsValue(SubSeq(s, 1, Len(s) - 1)) * Len(DigitChars) + DigitValue(s[Len(s)])

\* int(s) on a string of decimal digits; anything else raises ValueError.
PyIntOk(s) == s # <<>> /\ \A i \in 1..Len(s) : IsDigit(s[i])

PyInt(s) == DigitsValue(s)

\* The largest index at which c occurs in s, 0 when it does not.
LastIndexOf(s, c) ==
    IF \E i \in 1..Len(s) : s[i] = c
    THEN CHOOSE i \in 1..Len(s) : s[i] = c /\ \A j \in (i + 1)..Len(s) : s[j] # c
    ELSE 0

\* os.path.basename(p)
Basename(p) == SubSeq(p, LastIndexOf(p, "/") + 1, Len(p))

\* os.path.splitext(p)[0]: the extension starts at the last dot, unless only
\* dots precede it.
SplitextRoot(p) ==
    LET dot == LastIndexOf(p, ".") IN
    IF dot > 0 /\ \E i \in 1..(dot - 1) : p[i] # "."
    THEN SubSeq(p, 1, dot - 1)
    ELSE p

-----------------------------------------------------------------------------
(* DISCEvalDataset: construction and __getitem__ *)

SPLIT_REF == 0

SPLIT_QUERY == 1

SPLIT_TRAIN == 2

MaxDirFiles == 2

NameWidth == 2

\* None, where the code only tests a path for truth
None == <<>>

\* The image numbers a directory's files may carry.
ImageNums == {0, 5, 10}

\* A directory's files by image number, as get_image_paths lists them.
Listings ==
    { l \in SeqsUpTo(ImageNums, MaxDirFiles) :
        \A i \in 1..Len(l), j \in 1..Len(l) : i < j => l[i] < l[j] }

Roots == { <<"d">>, <<"d","/">> }

ReferencesDir == <<"d","/","r","e","f","e","r","e","n","c","e","s">>

QueriesDir == <<"d","/","f","i","n","a","l","_","q","u","e","r","i","e","s">>

TrainDir == <<"d","/","t","r","a","i","n">>

\* Other places a caller may name for a part of the dataset.
OtherQueries == <<"x","/","q">>

OtherReferences == <<"x","/","r">>

OtherTrain == <<"x","/","t">>

OtherGt == <<"x","/","g","t",".","c","s","v">>

RECURSIVE FileNames(_, _)
FileNames(letter, nums) ==
    IF nums = <<>> THEN <<>>
    ELSE <<Format(letter, NameWidth, Head(nums)) \o <<".","j","p","g">>>>
         \o FileNames(letter, Tail(nums))

\* The file names in a directory of the disk: R.. under references, Q.. under
\* final_queries, T.. under train; the other places hold one file each.
ListDir(disk, dir) ==
    IF dir = ReferencesDir THEN FileNames("R", disk.references)
    ELSE IF dir = QueriesDir THEN FileNames("Q", disk.final_queries)
    ELSE IF dir = TrainDir THEN FileNames("T", disk.train)
    ELSE IF dir = OtherQueries THEN FileNames("Q", <<7>>)
    ELSE IF dir = OtherReferences THEN FileNames("R", <<7>>)
    ELSE IF dir = OtherTrain THEN FileNames("T", <<7>>)
    ELSE <<>>

RECURSIVE JoinAll(_, _)
JoinAll(dir, names) ==
    IF names = <<>> THEN <<>>
    ELSE <<Join(dir, Head(names))>> \o JoinAll(dir, Tail(names))

\* get_image_paths(path): the paths of the image files under path
GetImagePaths(disk, path) == JoinAll(path, ListDir(disk, path))

\* read_ground_truth(path): the ground truth held by the file at path
ReadGroundTruth(path) == [from |-> path]

\* dict(name=name, split=split, image_num=int(name[1:]), target=-1) with the
\* number read one character too late.
MetadataSkippingTwo(name, split) ==
    [name |-> name, split |-> split,
     image_num |-> PyInt(SubSeq(name, 3, Len(name))), target |-> 0 - 1]

\* dict(name=name, split=split, image_num=int(name[1:]), target=-1)
Metadata(name, split) ==
    [name |-> name, split |-> split,
     image_num |-> PyInt(SubSeq(name, 2, Len(name))), target |-> 0 - 1]

RECURSIVE MetadataAll(_, _)
MetadataAll(files, split) ==
    IF files = <<>> THEN <<>>
    ELSE <<Metadata(SplitextRoot(Basename(Head(files))), split)>>
         \o MetadataAll(Tail(files), split)

\* Whether int(name[1:]) succeeds for every file.
NamesParse(files) ==
    \A i \in 1..Len(files) :
        LET name == SplitextRoot(Basename(files[i])) IN
        PyIntOk(SubSeq(name, 2, Len(name)))

\* DISCEvalDataset.read_files
ReadFiles(disk, path, split) ==
    LET files == GetImagePaths(disk, path) IN
    IF NamesParse(files)
    THEN [exc |-> "none", files |-> files, metadata |-> MetadataAll(files, split)]
    ELSE [exc |-> "ValueError", files |-> <<>>, metadata |-> <<>>]

Read(fn, path) == [fn |-> fn, path |-> path]

\* The train directory, read whatever include_train says.
TrainPathAlways(path, include_train) == Join(path, <<"t","r","a","i","n">>)

\* train_path = os.path.join(path, "train") if include_train else None
TrainPath(path, include_train) ==
    IF include_train THEN Join(path, <<"t","r","a","i","n">>) ELSE None

EvalArgs(path, include_train, query_path, ref_path, train_path, gt_path) ==
    [path |-> path, include_train |-> include_train, query_path |-> query_path,
     ref_path |-> ref_path, train_path |-> train_path, gt_path |-> gt_path]

EvalDataset(exc, files, metadata, gt) ==
    [exc |-> exc, files |-> files, metadata |-> metadata, gt |-> gt]

\* DISCEvalDataset.__init__: the four path parameters are assigned from
\* `path` whatever the caller passed.
EvalInit(disk, args) ==
    LET query_path == Join(args.path, <<"f","i","n","a","l","_","q","u","e","r","i","e","s">>)
        ref_path == Join(args.path, <<"r","e","f","e","r","e","n","c","e","s">>)
        train_path == TrainPath(args.path, args.include_train)
        gt_path == Join(args.path, <<"g","t","_","1","k",".","c","s","v">>)
        refs == ReadFiles(disk, ref_path, SPLIT_REF)
        queries == ReadFiles(disk, query_path, SPLIT_QUERY)
        train == ReadFiles(disk, train_path, SPLIT_TRAIN)
        r1 == <<Read("get_image_paths", ref_path)>>
        r2 == r1 \o <<Read("get_image_paths", query_path)>>
        r3 == IF train_path # None
              THEN r2 \o <<Read("get_image_paths", train_path)>> ELSE r2
    IN
    IF refs.exc # "none"
    THEN [ds |-> EvalDataset(refs.exc, <<>>, <<>>, ReadGroundTruth(None)), reads |-> r1]
    ELSE IF queries.exc # "none"
    THEN [ds |-> EvalDataset(queries.exc, <<>>, <<>>, ReadGroundTruth(None)), reads |-> r2]
    ELSE IF train_path # None /\ train.exc # "none"
    THEN [ds |-> EvalDataset(train.exc, <<>>, <<>>, ReadGroundTruth(None)), reads |-> r3]
    ELSE [ds |-> EvalDataset("none",
                             refs.files \o queries.files
                                 \o (IF train_path # None THEN train.files ELSE <<>>),
                             refs.metadata \o queries.metadata
                                 \o (IF train_path # None THEN train.metadata ELSE <<>>),
                             ReadGroundTruth(gt_path)),
          reads |-> r3 \o <<Read("read_ground_truth", gt_path)>>]

Sample(input, instance_id) == [input |-> input, instance_id |-> instance_id]

\* DISCEvalDataset.__getitem__ (self.transform applied to the loaded image);
\* sample.update(metadata) lets the metadata's keys win.
EvalGetItem(ds, idx) ==
    IF ~PyIndexable(ds.files, idx)
    THEN [idx |-> idx, exc |-> "IndexError", sample |-> <<>>]
    ELSE [idx |-> idx, exc |-> "none",
          sample |-> PyGet(ds.metadata, idx)
                         @@ Sample(Image(PyGet(ds.files, idx), TRUE), idx)]

NoCall == [idx |-> 0, exc |-> "not called", sample |-> <<>>]

DatasetInitState ==
    /\ ddisk \in [references : Listings, final_queries : Listings, train : Listings]
    /\ dpc = "start"
    /\ dargs = <<>>
    /\ dds = <<>>
    /\ dreads = <<>>
    /\ dcall = NoCall
    /\ mfile = "" /\ mpc = "" /\ margv = <<>> /\ margs = <<>> /\ mres = <<>>
    /\ tgt = <<>> /\ tdisk = <<>> /\ tds = <<>> /\ tcalls = <<>>
    /\ rpc = "" /\ rin = <<>> /\ rsplits = <<>> /\ rcalls = <<>> /\ rout = <<>>

\* DISCEvalDataset(path, include_train=..., query_path=..., ...)
Construct ==
    /\ dpc = "start"
    /\ \E path \in Roots, include_train \in BOOLEAN,
          query_path \in {None, OtherQueries}, ref_path \in {None, OtherReferences},
          train_path \in {None, OtherTrain}, gt_path \in {None, OtherGt} :
        LET args == EvalArgs(path, include_train, query_path, ref_path,
                             train_path, gt_path)
            made == EvalInit(ddisk, args)
        IN
        /\ dargs' = args
        /\ dds' = made.ds
        /\ dreads' = made.reads
        /\ dpc' = IF made.ds.exc = "none" THEN "constructed" ELSE "raised"
    /\ UNCHANGED <<ddisk, dcall, mvars, tvars, rvars>>

\* dataset[idx]
EvalItem ==
    /\ dpc = "constructed"
    /\ \E idx \in (0 - 2)..(3 * MaxDirFiles) :
        dcall' = EvalGetItem(dds, idx)
    /\ dpc' = "called"
    /\ UNCHANGED <<ddisk, dargs, dds, dreads, mvars, tvars, rvars>>

DatasetNext == Construct \/ EvalItem

-----------------------------------------------------------------------------
(* DISCEvalDataset: retrieval evaluation *)

MaxRows == 3

\* Values a row's split may take: the three splits and one that is none of them.
SplitValues == {SPLIT_REF, SPLIT_QUERY, SPLIT_TRAIN, 3}

\* Row i's target: the image number of the row's image, distinct per row.
Targets(n) == [i \in 1..n |-> 4 * i]

KValues == {1, 10}

\* Keyword arguments a caller may add; they are passed on untouched.
ExtraKwargs == { <<>>, <<"metric">> }

\* What the external matchers and evaluate may return.
PredictionValues == {"predictions A", "predictions B"}

Optional(is_none, value) == [is_none |-> is_none, value |-> value]

Metrics(average_precision, recall_at_rank1, recall_at_p90) ==
    [average_precision |-> average_precision,
     recall_at_rank1 |-> recall_at_rank1,
     recall_at_p90 |-> recall_at_p90]

\* Metric values in hundredths; recall_at_p90 may be None.
MetricsValues ==
    { Metrics(50, 60, Optional(TRUE, 0)), Metrics(50, 60, Optional(FALSE, 0)),
      Metrics(50, 60, Optional(FALSE, 70)) }

\* x or 0.0
OrZero(x) == IF x.is_none \/ x.value = 0 THEN 0 ELSE x.value

RECURSIVE Select(_, _)
\* array[mask]: the rows whose mask entry is true, in order
Select(rows, mask) ==
    IF rows = <<>> THEN <<>>
    ELSE (IF Head(mask) THEN <<Head(rows)>> ELSE <<>>)
         \o Select(Tail(rows), Tail(mask))

\* A reference mask that takes every row that is not a query.
RefMaskNotQuery(split) == [i \in 1..Len(split) |-> split[i] # SPLIT_QUERY]

\* query_mask = split == self.SPLIT_QUERY
QueryMask(split) == [i \in 1..Len(split) |-> split[i] = SPLIT_QUERY]

\* ref_mask = split == self.SPLIT_REF
RefMask(split) == [i \in 1..Len(split) |-> split[i] = SPLIT_REF]

RECURSIVE FormatAll(_, _, _)
\* ["<letter>%0<width>d" % i for i in ids]
FormatAll(letter, width, ids) ==
    IF ids = <<>> THEN <<>>
    ELSE <<Format(letter, width, Head(ids))>> \o FormatAll(letter, width, Tail(ids))

\* The GPU count with the two cases exchanged.
NgpuSwapped(use_gpu) == IF use_gpu THEN 0 ELSE 0 - 1

\* ngpu=-1 if use_gpu else 0
Ngpu(use_gpu) == IF use_gpu THEN 0 - 1 ELSE 0

SplitsArgs(query_ids, query_embeddings, ref_ids, ref_embeddings, kwargs) ==
    [query_ids |-> query_ids, query_embeddings |-> query_embeddings,
     ref_ids |-> ref_ids, ref_embeddings |-> ref_embeddings, kwargs |-> kwargs]

Kwargs(use_gpu, k, global_candidates, extra) ==
    [use_gpu |-> use_gpu, k |-> k, global_candidates |-> global_candidates,
     extra |-> extra]

ExternalCall(fn, args, ret) == [fn |-> fn, args |-> args, ret |-> ret]

\* The arguments of a matcher call; size is num_results or k, as size_name says.
MatcherArgs(query_embeddings, query_names, ref_embeddings, ref_names, size_name, size, ngpu, extra) ==
    [query_embeddings |-> query_embeddings, query_names |-> query_names,
     ref_embeddings |-> ref_embeddings, ref_names |-> ref_names,
     size_name |-> size_name, size |-> size, ngpu |-> ngpu, extra |-> extra]

\* DISCEvalDataset.retrieval_eval_splits; `predictions` and `results` are
\* what the matcher and evaluate return.
RetrievalEvalSplits(gt, a, predictions, results) ==
    LET query_names == FormatAll("Q", 5, a.query_ids)
        ref_names == FormatAll("R", 6, a.ref_ids)
        matcher ==
            IF a.kwargs.global_candidates
            THEN ExternalCall("match_and_make_predictions",
                     MatcherArgs(a.query_embeddings, query_names,
                                 a.ref_embeddings, ref_names,
                                 "num_results", a.kwargs.k * Len(query_names),
                                 Ngpu(a.kwargs.use_gpu), a.kwargs.extra),
                     predictions)
            ELSE ExternalCall("knn_match_and_make_predictions",
                     MatcherArgs(a.query_embeddings, query_names,
                                 a.ref_embeddings, ref_names,
                                 "k", a.kwargs.k,
                                 Ngpu(a.kwargs.use_gpu), a.kwargs.extra),
                     predictions)
    IN
    [calls |-> <<matcher,
                 ExternalCall("evaluate", [gt |-> gt, predictions |-> predictions],
                              results)>>,
     result |-> ("uAP" :> results.average_precision)
                @@ ("accuracy-at-1" :> results.recall_at_rank1)
                @@ ("recall-at-p90" :> OrZero(results.recall_at_p90))]

\* DISCEvalDataset.retrieval_eval: the arguments it passes on
RetrievalEval(embedding_array, targets, split, kwargs) ==
    SplitsArgs(Select(targets, QueryMask(split)),
               Select(embedding_array, QueryMask(split)),
               Select(targets, RefMask(split)),
               Select(embedding_array, RefMask(split)),
               kwargs)

\* Row i of the embedding array, told apart by its row number.
Embeddings(n) == [i \in 1..n |-> [row |-> i]]

GroundTruth == ReadGroundTruth(Join(<<"d">>, <<"g","t","_","1","k",".","c","s","v">>))

RetrievalInitState ==
    /\ rpc = "start"
    /\ rin = <<>>
    /\ rsplits = <<>>
    /\ rcalls = <<>>
    /\ rout = <<>>
    /\ mfile = "" /\ mpc = "" /\ margv = <<>> /\ margs = <<>> /\ mres = <<>>
    /\ tgt = <<>> /\ tdisk = <<>> /\ tds = <<>> /\ tcalls = <<>>
    /\ ddisk = <<>> /\ dpc = "" /\ dargs = <<>> /\ dds = <<>>
    /\ dreads = <<>> /\ dcall = <<>>

\* dataset.retrieval_eval(embedding_array, targets, split, **kwargs), with
\* the values the matcher and evaluate return
CallRetrievalEval ==
    /\ rpc = "start"
    /\ \E n \in 0..MaxRows :
       \E split \in [1..n -> SplitValues],
          use_gpu \in BOOLEAN, k \in KValues, global_candidates \in BOOLEAN,
          extra \in ExtraKwargs,
          predictions \in PredictionValues, results \in MetricsValues :
        LET kwargs == Kwargs(use_gpu, k, global_candidates, extra)
            passed == RetrievalEval(Embeddings(n), Targets(n), split, kwargs)
            done == RetrievalEvalSplits(GroundTruth, passed, predictions, results)
        IN
        /\ rin' = [embedding_array |-> Embeddings(n), targets |-> Targets(n),
                   split |-> split, kwargs |-> kwargs]
        /\ rsplits' = passed
        /\ rcalls' = done.calls
        /\ rout' = done.result
    /\ rpc' = "returned"
    /\ UNCHANGED <<mvars, tvars, dvars>>

RetrievalNext == CallRetrievalEval

-----------------------------------------------------------------------------
(* Properties of the model programs (checked under SpecModel) *)

\* The member a completed lookup resolved, and the names the enumeration defines.
BuiltMember == Lookup(Backbone(mfile), mres.backbone_type).member

DefinedNames(file) == {Backbone(file)[i].name : i \in 1..Len(Backbone(file))}

RanBuild == mres.op \in {"build", "Model"} /\ mres.backbone_type # ""

\* C2: for every member of the Backbone enumeration, in src/model.py and in
\* src/sscd/models/model.py, build enters exactly one implementation branch,
\* the one equal to the member's third tuple element, and never ends in the
\* fatal AssertionError.
C2_BuildDispatchesEveryMember ==
    RanBuild =>
        /\ mres.branches = <<BuiltMember.v2>>
        /\ mres.exc # "AssertionError"

C2_Witness ==
    /\ mfile = "root"
    /\ mres.op = "build"
    /\ mres.backbone_type = "TIMM_RESNET18"
    /\ mres.branches = <<"TIMM">>
    /\ mres.exc = "none"

\* The implementation family a member's name prefix denotes.
PrefixFamily(name) ==
    IF StartsWith(name, <<"C","V","_">>) THEN "CLASSY_VISION"
    ELSE IF StartsWith(name, <<"T","V","_">>) THEN "TORCHVISION"
    ELSE IF StartsWith(name, <<"T","I","M","M","_">>) THEN "TIMM"
    ELSE "none"

\* C9: in src/model.py every Backbone member is tagged with the family its
\* name prefix denotes, its first tuple element is a callable for TORCHVISION
\* and a model-name string for CLASSY_VISION and TIMM, and build on it does
\* not fail by calling a non-callable value.
C9_MembersTaggedByPrefix ==
    (mfile = "root" /\ mres.op = "build") =>
        /\ BuiltMember.v2 = PrefixFamily(Spell(BuiltMember.name))
        /\ BuiltMember.v0.kind =
               (IF BuiltMember.v2 = "TORCHVISION" THEN "callable" ELSE "str")
        /\ mres.exc # "TypeError"

\* The backbone's global pooling is GlobalGeMPool2d(pool_param): a backbone
\* layer for TORCHVISION and TIMM members, the head's first layer for
\* CLASSY_VISION members.
PoolingIsGeM ==
    IF BuiltMember.v2 = "CLASSY_VISION"
    THEN /\ mres.embeddings # <<>>
         /\ Head(mres.embeddings) = GlobalGeMPool2d(margs.pool_param)
    ELSE IF BuiltMember.v2 = "TORCHVISION"
    THEN mres.backbone.avgpool = GlobalGeMPool2d(margs.pool_param)
    ELSE mres.backbone.global_pool = GlobalGeMPool2d(margs.pool_param)

HeadEndsInL2Norm ==
    /\ mres.embeddings # <<>>
    /\ mres.embeddings[Len(mres.embeddings)] = L2Norm

Constructed == mres.op = "Model" /\ mres.exc = "none"

KeepsOwnPooling ==
    /\ mfile = "sscd"
    /\ BuiltMember.v2 = "TORCHVISION"
    /\ margs.pool_param <= 1

C8_ChoicesAreMemberNames ==
    /\ (mpc = "usage_error") =>
           (margv.has_backbone /\ margv.backbone \notin DefinedNames(mfile))
    /\ (margv.parsed /\ mpc # "usage_error") =>
           /\ margv.has_backbone => margv.backbone \in DefinedNames(mfile)
           /\ margs.backbone \in DefinedNames(mfile)
           /\ ~margv.has_backbone => margs.backbone = "TV_RESNET18"
           /\ ~margv.has_dims => margs.dims = 512
           /\ ~margv.has_pool_param => margs.pool_param = 3
    /\ (margv.parsed /\ mpc = "done") =>
           /\ mres.exc # "KeyError"
           /\ mres.backbone_type = margs.backbone

C8_Witness ==
    /\ mpc = "done"
    /\ margv.parsed
    /\ ~margv.has_backbone /\ ~margv.has_dims /\ ~margv.has_pool_param
    /\ mres.backbone_type = "TV_RESNET18"
    /\ mres.exc = "none"

-----------------------------------------------------------------------------
(* Properties of DISCTrainDataset (checked under SpecTrain) *)

\* The number of ground-truth pairs when supervised, of training files when not.
ItemCount == IF tds.supervised THEN Len(tgt) ELSE Len(tdisk)

\* C1: __getitem__(idx) fails the index-bounds assertion, before any image is
\* loaded or transformed, for every idx outside 0 .. len(self)-1 in both
\* modes, and returns a record whose instance_id is idx for every idx inside.
C1_GetItemBoundsAssertion ==
    \A i \in 1..Len(tcalls) :
        LET c == tcalls[i] IN
        IF 0 <= c.idx /\ c.idx < ItemCount
        THEN /\ c.exc = "none"
             /\ c.record.instance_id = c.idx
        ELSE /\ c.exc = "AssertionError"
             /\ c.loaded = <<>>
             /\ c.record = NoRecord

C1_Witness ==
    /\ ~tds.supervised
    /\ Len(tdisk) = 2
    /\ Len(tcalls) = 2
    /\ tcalls[1].idx = 0 - 1 /\ tcalls[1].exc = "AssertionError"
    /\ tcalls[2].idx = 1 /\ tcalls[2].record.instance_id = 1

-----------------------------------------------------------------------------
(* Properties of DISCEvalDataset's construction (checked under SpecDataset) *)

Made == dpc \in {"constructed", "called"}

\* The files the disk holds under <path>/references, <path>/final_queries and
\* <path>/train, as (directory, letter, split, image number) entries in the
\* order the dataset lists them.
RECURSIVE Entries(_, _, _, _)
Entries(dir, letter, split, nums) ==
    IF nums = <<>> THEN <<>>
    ELSE <<[dir |-> dir, letter |-> letter, split |-> split, num |-> Head(nums)]>>
         \o Entries(dir, letter, split, Tail(nums))

ExpectedEntries ==
    Entries(ReferencesDir, "R", 0, ddisk.references)
        \o Entries(QueriesDir, "Q", 1, ddisk.final_queries)
        \o (IF dargs.include_train THEN Entries(TrainDir, "T", 2, ddisk.train)
            ELSE <<>>)

EntryPath(e) == e.dir \o <<"/">> \o Format(e.letter, NameWidth, e.num) \o <<".","j","p","g">>

\* C5: references are read from <path>/references, queries from
\* <path>/final_queries, ground truth from <path>/gt_1k.csv, and <path>/train
\* only when include_train is true; the file list is all reference files,
\* then all query files, then (only with include_train) all train files, so
\* without include_train no record has split SPLIT_TRAIN.
C5_OnDiskLayout ==
    Made =>
        /\ dreads =
               <<Read("get_image_paths", ReferencesDir),
                 Read("get_image_paths", QueriesDir)>>
               \o (IF dargs.include_train
                   THEN <<Read("get_image_paths", TrainDir)>> ELSE <<>>)
               \o <<Read("read_ground_truth",
                         <<"d","/","g","t","_","1","k",".","c","s","v">>)>>
        /\ dds.gt = [from |-> <<"d","/","g","t","_","1","k",".","c","s","v">>]
        /\ Len(dds.files) = Len(ExpectedEntries)
        /\ \A i \in 1..Len(dds.files) : dds.files[i] = EntryPath(ExpectedEntries[i])
        /\ ~dargs.include_train =>
               \A i \in 1..Len(dds.metadata) : dds.metadata[i].split # 2

C5_Witness ==
    /\ Made
    /\ ~dargs.include_train
    /\ ddisk.train # <<>>
    /\ Len(ddisk.references) = 2 /\ Len(ddisk.final_queries) = 1
    /\ Len(dds.files) = 3

\* C6: when query_path, ref_path, train_path or gt_path is set, that part of
\* the dataset is read from the given path.
C6_SpecificPathsAreUsed ==
    Made =>
        /\ dargs.query_path # None =>
               \E i \in 1..Len(dreads) : dreads[i] = Read("get_image_paths", dargs.query_path)
        /\ dargs.ref_path # None =>
               \E i \in 1..Len(dreads) : dreads[i] = Read("get_image_paths", dargs.ref_path)
        /\ dargs.train_path # None =>
               \E i \in 1..Len(dreads) : dreads[i] = Read("get_image_paths", dargs.train_path)
        /\ dargs.gt_path # None =>
               \E i \in 1..Len(dreads) : dreads[i] = Read("read_ground_truth", dargs.gt_path)

\* C10: files and metadata have the same length and metadata[i] describes
\* files[i]: its name is the file's base name without extension, its split is
\* that of the directory the file was read from, its image_num is the integer
\* after the name's first character and its target is -1; a sample returned
\* by __getitem__(idx) carries instance_id = idx and the metadata of
\* files[idx].
C10_MetadataDescribesFiles ==
    Made =>
        /\ Len(dds.files) = Len(dds.metadata)
        /\ Len(dds.metadata) = Len(ExpectedEntries)
        /\ \A i \in 1..Len(dds.metadata) :
               LET e == ExpectedEntries[i] IN
               /\ dds.files[i] = EntryPath(e)
               /\ dds.metadata[i].name = Format(e.letter, NameWidth, e.num)
               /\ dds.metadata[i].split = e.split
               /\ dds.metadata[i].image_num = e.num
               /\ dds.metadata[i].target = 0 - 1
        /\ (dpc = "called" /\ dcall.exc = "none") =>
               LET at == IF dcall.idx >= 0 THEN dcall.idx + 1
                         ELSE Len(dds.files) + dcall.idx + 1
               IN
               /\ dcall.sample.instance_id = dcall.idx
               /\ dcall.sample.input.path = dds.files[at]
               /\ dcall.sample.name = dds.metadata[at].name
               /\ dcall.sample.split = dds.metadata[at].split
               /\ dcall.sample.image_num = dds.metadata[at].image_num
               /\ dcall.sample.target = dds.metadata[at].target
               /\ DOMAIN dcall.sample =
                      {"input", "instance_id", "name", "split", "image_num", "target"}

C10_Witness ==
    /\ dpc = "called"
    /\ dargs.include_train
    /\ dcall.exc = "none"
    /\ dcall.idx = 4
    /\ dcall.sample.split = 2
    /\ dcall.sample.image_num = 10
    /\ dcall.sample.instance_id = 4

-----------------------------------------------------------------------------
(* Properties of retrieval evaluation (checked under SpecRetrieval) *)

Returned == rpc = "returned"

\* C3: retrieval_eval_splits calls exactly one matcher, once -
\* match_and_make_predictions with num_results = k * (number of query ids)
\* when global_candidates is true, otherwise knn_match_and_make_predictions
\* with k - passing ngpu = -1 when use_gpu is true and 0 otherwise; only then
\* does it call evaluate, once, with the dataset's ground truth and the
\* predictions the matcher returned; the result has exactly the keys uAP,
\* accuracy-at-1 and recall-at-p90, and recall-at-p90 is 0.0, never None,
\* when the metrics report no recall at precision 90.
C3_MatcherThenEvaluate ==
    Returned =>
        LET kw == rsplits.kwargs IN
        /\ Len(rcalls) = 2
        /\ rcalls[1].fn =
               (IF kw.global_candidates THEN "match_and_make_predictions"
                ELSE "knn_match_and_make_predictions")
        /\ rcalls[1].args.size_name = (IF kw.global_candidates THEN "num_results" ELSE "k")
        /\ rcalls[1].args.size =
               (IF kw.global_candidates THEN kw.k * Len(rsplits.query_ids) ELSE kw.k)
        /\ rcalls[1].args.ngpu = (IF kw.use_gpu THEN 0 - 1 ELSE 0)
        /\ rcalls[2].fn = "evaluate"
        /\ rcalls[2].args.gt = [from |-> <<"d","/","g","t","_","1","k",".","c","s","v">>]
        /\ rcalls[2].args.predictions = rcalls[1].ret
        /\ DOMAIN rout = {"uAP", "accuracy-at-1", "recall-at-p90"}
        /\ rout["uAP"] = rcalls[2].ret.average_precision
        /\ rout["accuracy-at-1"] = rcalls[2].ret.recall_at_rank1
        /\ rout["recall-at-p90"] =
               (IF rcalls[2].ret.recall_at_p90.is_none THEN 0
                ELSE rcalls[2].ret.recall_at_p90.value)

C3_Witness ==
    /\ Returned
    /\ rsplits.kwargs.global_candidates /\ rsplits.kwargs.use_gpu
    /\ rsplits.kwargs.k = 10
    /\ Len(rsplits.query_ids) = 2
    /\ rcalls[1].args.size = 20
    /\ rcalls[2].ret.recall_at_p90.is_none
    /\ rout["recall-at-p90"] = 0

\* The row numbers whose split is v, in increasing order.
RECURSIVE RowsFrom(_, _, _)
RowsFrom(split, v, i) ==
    IF i > Len(split) THEN <<>>
    ELSE (IF split[i] = v THEN <<i>> ELSE <<>>) \o RowsFrom(split, v, i + 1)

\* C4: the query ids and embeddings retrieval_eval passes on are exactly the
\* rows with split = SPLIT_QUERY, the reference ids and embeddings exactly the
\* rows with split = SPLIT_REF, each in the original row order and with ids
\* and embeddings selected together; rows with any other split reach neither
\* side.
C4_PartitionBySplit ==
    Returned =>
        LET q == RowsFrom(rin.split, 1, 1)
            r == RowsFrom(rin.split, 0, 1)
        IN
        /\ Len(rsplits.query_ids) = Len(q)
        /\ Len(rsplits.query_embeddings) = Len(q)
        /\ \A j \in 1..Len(q) :
               /\ rsplits.query_ids[j] = rin.targets[q[j]]
               /\ rsplits.query_embeddings[j] = rin.embedding_array[q[j]]
        /\ Len(rsplits.ref_ids) = Len(r)
        /\ Len(rsplits.ref_embeddings) = Len(r)
        /\ \A j \in 1..Len(r) :
               /\ rsplits.ref_ids[j] = rin.targets[r[j]]
               /\ rsplits.ref_embeddings[j] = rin.embedding_array[r[j]]
        /\ rcalls[1].args.query_embeddings = rsplits.query_embeddings
        /\ rcalls[1].args.ref_embeddings = rsplits.ref_embeddings

C4_Witness ==
    /\ Returned
    /\ rin.split = <<1, 2, 1>>
    /\ rsplits.query_ids = <<4, 12>>
    /\ rsplits.ref_ids = <<>>

-----------------------------------------------------------------------------
(* Specifications: one per program; the other programs' state is idle. *)

SpecModel == ModelInitState /\ [][ModelNext]_vars

SpecTrain == TrainInitState /\ [][TrainNext]_vars

SpecDataset == DatasetInitState /\ [][DatasetNext]_vars

SpecRetrieval == RetrievalInitState /\ [][RetrievalNext]_vars

=============================================================================
